---- MODULE Spec2Model ----
(***************************************************************************)
(* Project management tools of the Basic Memory MCP server                 *)
(* (src/src/basic_memory/mcp/tools/project_management.py).                 *)
(*                                                                         *)
(* Every tool handler is a coroutine: it runs atomically from one `await`  *)
(* of a backend call to the next, and other handlers of the same session   *)
(* may run while it is suspended.  One action of this module is one such   *)
(* segment of a handler.                                                   *)
(*                                                                         *)
(* Strings are sequences of one-character strings, so that str.lower(),    *)
(* generate_permalink() and the comparisons of the resolvers are computed. *)
(*                                                                         *)
(* The names `session`, `get_project_config`, `ProjectInfoResponse`,       *)
(* `logger`, `dedent` and `add_project_metadata` are used by the handlers  *)
(* but bound by no import of the file; they belong to other modules of the *)
(* repository.  A use of one of them either reaches that collaborator or   *)
(* raises (NameError, or an error of the collaborator): both outcomes are  *)
(* modelled, as a nondeterministic choice of the failing call.  The names  *)
(* `current` (line 64) and `matching_project` in delete_project (line 302) *)
(* are bound nowhere: their evaluation always raises NameError.            *)
(***************************************************************************)
EXTENDS Naturals, Sequences, FiniteSets

\* ------------------------------------------------------------------ bounds

\* Largest number of records the backend's project list holds.
MaxProjects == 2

\* Concurrently dispatched tool calls of the one session.
Procs == {"t1", "t2"}

\* ----------------------------------------------------------------- strings

Alpha == <<"a", "l", "p", "h", "a">>
AlphaCap == <<"A", "l", "p", "h", "a">>
MyProject == <<"M", "y", " ", "P", "r", "o", "j", "e", "c", "t">>
MySlug == <<"m", "y", "-", "p", "r", "o", "j", "e", "c", "t">>
Beta == <<"b", "e", "t", "a">>

\* The names a caller passes and a project may carry.
Names == {Alpha, AlphaCap, MyProject, MySlug, Beta}

\* The one path a created project is rooted at.
Paths == {<<"/", "p">>}

LowerChar(c) ==
    CASE c = "A" -> "a"
      [] c = "M" -> "m"
      [] c = "P" -> "p"
      [] OTHER   -> c

\* str.lower()
Lower(s) == [i \in DOMAIN s |-> LowerChar(s[i])]

\* basic_memory.utils.generate_permalink: the normalized slug of a name
\* (lower-cased, blanks and underscores turned into hyphens).
generate_permalink(s) ==
    [i \in DOMAIN s |->
        IF s[i] = " " \/ s[i] = "_" THEN "-" ELSE LowerChar(s[i])]

\* A record of the Remote Project Directory, as GET /projects/projects lists it.
ProjectItem(n, path) == [name |-> n, path |-> path, permalink |-> generate_permalink(n)]

\* Mutant of Truthy: the test of the constraint inverted.
TruthyInverted(v) == ~(v # {} /\ v # {<< >>})

\* Truth value of `if constrained_project:` for the value os.environ.get returns:
\* the set is empty when the variable is unset (None), else holds its value.
Truthy(v) == v # {} /\ v # {<< >>}

\* ------------------------------------------------------------------- state

VARIABLES
    env,              \* os.environ.get("BASIC_MEMORY_MCP_PROJECT"): {} or {value}
    projects,         \* Remote Project Directory: the list GET /projects/projects returns
    current_project,  \* Session State: session.get/set_current_project
    current_listed,   \* history: the value is the initial one or was, when set, a name of the list its writer fetched
    current_writer,   \* history: the call that wrote Session State last ("init": none)
    pc,               \* per call: "idle", the await it is suspended at, or "done"
    tool,             \* per call: the tool invoked
    project_name,     \* per call: the project_name argument
    project_list,     \* per call: the fetched project list (ProjectList.projects)
    local_current,    \* per call: the handler's local variable current_project
    local_listed,     \* history: current_listed as it was when local_current was read
    actual_project_name, \* per call: switch_project's actual_project_name (<< >>: unset)
    result,           \* per call: how the call ended
    reqs,             \* per call: the backend requests it issued, in order
    writes,           \* history, per call: completed session.set_current_project calls
    entry,            \* history, per switch_project call: Session State when the call started
    overlap           \* history, per call: its set step ran while another call had set and was awaiting its statistics

vars == <<env, projects, current_project, current_listed, current_writer, pc, tool,
          project_name, project_list, local_current, local_listed,
          actual_project_name, result, reqs, writes, entry, overlap>>

backend == <<env, projects>>
session == <<current_project, current_listed, current_writer>>
locals == <<project_list, local_current, local_listed, actual_project_name>>

NoName == << >>
NoResult == [status |-> "none", kind |-> "none", name |-> NoName,
             shown |-> NoName, available |-> << >>]

Returned(k, n, shown, avail) ==
    [status |-> "returned", kind |-> k, name |-> n, shown |-> shown, available |-> avail]
Raised(k, avail) ==
    [status |-> "raised", kind |-> k, name |-> NoName, shown |-> NoName, available |-> avail]

\* The project the session starts on.
InitialProject == Alpha

\* The deployments a session may start in: the value of the environment
\* variable ({}: unset) and the list the Remote Project Directory holds.
InitStates ==
    { << {}, << ProjectItem(Alpha, <<"/", "p">>) >> >>,
      << {<< >>}, << ProjectItem(MyProject, <<"/", "p">>), ProjectItem(Alpha, <<"/", "p">>) >> >>,
      << {Alpha}, << ProjectItem(MyProject, <<"/", "p">>), ProjectItem(Alpha, <<"/", "p">>) >> >> }

Init ==
    /\ \E s \in InitStates : env = s[1] /\ projects = s[2]
    /\ current_project = InitialProject
    /\ current_listed = TRUE
    /\ current_writer = "init"
    /\ pc = [p \in Procs |-> "idle"]
    /\ tool = [p \in Procs |-> "none"]
    /\ project_name = [p \in Procs |-> NoName]
    /\ project_list = [p \in Procs |-> << >>]
    /\ local_current = [p \in Procs |-> NoName]
    /\ local_listed = [p \in Procs |-> TRUE]
    /\ actual_project_name = [p \in Procs |-> NoName]
    /\ result = [p \in Procs |-> NoResult]
    /\ reqs = [p \in Procs |-> << >>]
    /\ writes = [p \in Procs |-> 0]
    /\ entry = [p \in Procs |-> NoName]
    /\ overlap = [p \in Procs |-> FALSE]

\* ---------------------------------------------------------------- helpers

\* Mutant of AvailableProjects: the enumeration stops one record short.
AvailableButLast(list) == [i \in 1..(Len(list) - 1) |-> list[i].name]

\* [p.name for p in project_list.projects]
AvailableProjects(list) == [i \in DOMAIN list |-> list[i].name]

Range(s) == {s[i] : i \in DOMAIN s}

\* `for p in project_list.projects: if <match>: ...; break`: the first of the
\* indices that match, 0 when none does (the variable stays None).
FirstIndex(matching) ==
    IF matching = {}
    THEN 0
    ELSE CHOOSE i \in matching : \A j \in matching : i <= j

\* The host runtime dispatches a call of `t` with argument `n` to the free slot p.
\* Free slots are interchangeable: the lowest one is taken.
Dispatch(p, t, n) ==
    /\ pc[p] = "idle"
    /\ p = "t2" => pc["t1"] # "idle"
    /\ tool' = [tool EXCEPT ![p] = t]
    /\ project_name' = [project_name EXCEPT ![p] = n]
    /\ entry' = [entry EXCEPT ![p] = IF t = "switch_project" THEN current_project ELSE NoName]

Suspend(p, at, request) ==
    /\ pc' = [pc EXCEPT ![p] = at]
    /\ reqs' = [reqs EXCEPT ![p] = Append(@, request)]

\* The call ends: its local current_project is gone.
Finish(p, res) ==
    /\ pc' = [pc EXCEPT ![p] = "done"]
    /\ local_current' = [local_current EXCEPT ![p] = NoName]
    /\ local_listed' = [local_listed EXCEPT ![p] = TRUE]
    /\ result' = [result EXCEPT ![p] = res]

\* session.set_current_project(val) by call p, the w-th write of the call.
SessionSet(p, val, listed, w) ==
    /\ current_project' = val
    /\ current_listed' = listed
    /\ current_writer' = p
    /\ writes' = [writes EXCEPT ![p] = w]

\* ----------------------------------------------------------- switch_project

\* Lines 94-98: the first record whose name equals project_name case-insensitively.
SwitchResolve(list, n) ==
    FirstIndex({i \in DOMAIN list : Lower(list[i].name) = Lower(n)})

\* Mutant of SetValue: the caller's spelling is written instead of the record's.
SetValueRaw(n, matching_name) == n

\* Lines 105, 108: the name written to Session State is the record's own name.
SetValue(n, matching_name) == matching_name

\* Mutant of SwitchedName: the text names the project as the caller spelled it.
SwitchedRequested(n, actual) == n

\* Lines 121, 130, 133: the success text names actual_project_name.
SwitchedName(n, actual) == actual

\* Mutant of RestoreValue: the handler writes the requested name.
RestoreRequested(n, local) == n

\* Line 138: the value the exception handler restores is the local current_project.
RestoreValue(n, local) == local

\* Lines 135-161, the handler of the outer try.  `pre` is Session State as the
\* try block left it (<<value, listed, writer>>), nw the writes completed so far,
\* rv/rl the local current_project (and its history) when the exception was raised.
\*   hf = "logger": logger.error raises, nothing is restored;
\*   hf = "set":    session.set_current_project raises, nothing is restored;
\*   hf = "dedent": the value is restored, then building the message raises;
\*   hf = "none":   the value is restored and the failure text is returned.
HandlerFaults == {"none", "logger", "set", "dedent"}

SwitchHandler(p, hf, pre, nw, rv, rl) ==
    LET restored == hf \in {"none", "dedent"}
        val      == RestoreValue(project_name[p], rv)
    IN  /\ IF restored
           THEN SessionSet(p, val, val = rv /\ rl, nw + 1)
           ELSE /\ current_project' = pre[1]
                /\ current_listed' = pre[2]
                /\ current_writer' = pre[3]
                /\ writes' = [writes EXCEPT ![p] = nw]
        /\ Finish(p, IF hf = "none"
                     THEN Returned("switch_failed", project_name[p], val, << >>)
                     ELSE Raised("handler_error", << >>))

\* Lines 84-90: read the rollback point (outside the try), then await the list.
SwitchStart(p, n) ==
    /\ Dispatch(p, "switch_project", n)
    /\ \E fault \in {"none", "get"} :
        IF fault = "get"
        THEN \* line 87 raises: nothing catches it
             /\ Finish(p, Raised("session_error", << >>))
             /\ UNCHANGED reqs
        ELSE /\ local_current' = [local_current EXCEPT ![p] = current_project]
             /\ local_listed' = [local_listed EXCEPT ![p] = current_listed]
             /\ Suspend(p, "sw_list", "GET /projects/projects")
             /\ UNCHANGED result
    /\ UNCHANGED <<backend, session, project_list, actual_project_name, writes, overlap>>

\* Lines 90-118: the list arrives; resolve, set, re-read, get the config, await the info.
\*   fault = "call_get": the fetch or its validation raises (lines 90-91);
\*   fault = "set":      session.set_current_project raises (line 108);
\*   fault = "get":      session.get_current_project raises (line 109);
\*   fault = "config":   get_project_config raises (line 110).
SwitchListed(p) ==
    /\ pc[p] = "sw_list"
    /\ \E fault \in {"none", "call_get", "set", "get", "config"}, hf \in HandlerFaults :
        LET n    == project_name[p]
            idx  == SwitchResolve(projects, n)
            name == SetValue(n, projects[idx].name)
            \* history: is the value set a name of the list this call fetched?
            lst  == name \in Range(AvailableProjects(projects))
            old  == <<current_project, current_listed, current_writer>>
            new  == <<name, lst, p>>
        IN  IF fault = "call_get"
            THEN /\ SwitchHandler(p, hf, old, 0, local_current[p], local_listed[p])
                 /\ UNCHANGED <<project_list, actual_project_name, reqs, overlap>>
            ELSE /\ project_list' = [project_list EXCEPT ![p] = projects]
                 /\ IF idx = 0
                    THEN \* lines 100-102: the error text, returned from inside the try
                         /\ fault = "none" /\ hf = "none"
                         /\ Finish(p, Returned("not_found", n, NoName, AvailableProjects(projects)))
                         /\ UNCHANGED <<session, writes, actual_project_name, reqs, overlap>>
                    ELSE /\ actual_project_name' = [actual_project_name EXCEPT ![p] = name]
                         /\ CASE fault = "set" ->
                                   /\ SwitchHandler(p, hf, old, 0, local_current[p], local_listed[p])
                                   /\ UNCHANGED <<reqs, overlap>>
                              [] fault = "get" ->
                                   /\ SwitchHandler(p, hf, new, 1, local_current[p], local_listed[p])
                                   /\ UNCHANGED <<reqs, overlap>>
                              [] fault = "config" ->
                                   \* line 109 has rebound the local to the value just set
                                   /\ SwitchHandler(p, hf, new, 1, name, lst)
                                   /\ UNCHANGED <<reqs, overlap>>
                              [] OTHER ->
                                   /\ hf = "none"
                                   /\ SessionSet(p, name, lst, 1)
                                   /\ local_current' = [local_current EXCEPT ![p] = name]
                                   /\ local_listed' = [local_listed EXCEPT ![p] = lst]
                                   /\ overlap' = [overlap EXCEPT ![p] =
                                         \E q \in Procs \ {p} : pc[q] = "sw_info"]
                                   /\ Suspend(p, "sw_info", "GET /project/info")
                                   /\ UNCHANGED result
    /\ UNCHANGED <<backend, tool, project_name, entry>>

\* Lines 113-133: the project info arrives (or not); build the result.
\*   fault = "call_get": the info fetch raises and the inner handler reports the
\*                       switch without a summary (lines 127-131);
\*   fault = "logger":   logger.warning raises inside the inner handler (line 129);
\*   fault = "metadata": add_project_metadata raises (line 133).
SwitchInfo(p) ==
    /\ pc[p] = "sw_info"
    /\ \E fault \in {"none", "call_get", "logger", "metadata"}, hf \in HandlerFaults :
        LET old == <<current_project, current_listed, current_writer>>
        IN  IF fault \in {"none", "call_get"}
            THEN /\ hf = "none"
                 /\ Finish(p, Returned(IF fault = "none" THEN "switched" ELSE "switched_no_summary",
                                       SwitchedName(project_name[p], actual_project_name[p]),
                                       NoName, << >>))
                 /\ UNCHANGED <<session, writes>>
            ELSE SwitchHandler(p, hf, old, writes[p], local_current[p], local_listed[p])
    /\ UNCHANGED <<backend, tool, project_name, project_list,
                   actual_project_name, reqs, entry, overlap>>

\* ----------------------------------------------------- list_memory_projects

\* Lines 43-50: read the constraint, then await the project list.
ListStart(p) ==
    /\ Dispatch(p, "list_memory_projects", NoName)
    /\ Suspend(p, "ls_list", "GET /projects/projects")
    /\ UNCHANGED <<backend, session, locals, result, writes, overlap>>

\* Lines 50-64: the list arrives and the text is built; the return statement
\* evaluates `current`, a name bound nowhere, so the call ends in NameError.
ListListed(p) ==
    /\ pc[p] = "ls_list"
    /\ \E fault \in {"none", "call_get"} :
        Finish(p, Raised(IF fault = "call_get" THEN "remote_call_failure" ELSE "name_error",
                         << >>))
    /\ UNCHANGED <<backend, session, tool, project_name, project_list,
                   actual_project_name, reqs, writes, entry, overlap>>

\* ------------------------------------------------------ get_current_project

\* Lines 177-189: read Session State, get the config, await the project info.
GetCurrentStart(p) ==
    /\ Dispatch(p, "get_current_project", NoName)
    /\ \E fault \in {"none", "get", "config"} :
        IF fault = "none"
        THEN /\ local_current' = [local_current EXCEPT ![p] = current_project]
             /\ local_listed' = [local_listed EXCEPT ![p] = current_listed]
             /\ Suspend(p, "gc_info", "GET /project/info")
             /\ UNCHANGED result
        ELSE /\ Finish(p, Raised(IF fault = "get" THEN "session_error" ELSE "config_error", << >>))
             /\ UNCHANGED reqs
    /\ UNCHANGED <<backend, session, project_list, actual_project_name, writes, overlap>>

\* Lines 185-192: the info arrives; the text names the project read at line 180.
GetCurrentInfo(p) ==
    /\ pc[p] = "gc_info"
    /\ \E fault \in {"none", "call_get"} :
        Finish(p, IF fault = "none"
                  THEN Returned("current", NoName, local_current[p], << >>)
                  ELSE Raised("remote_call_failure", << >>))
    /\ UNCHANGED <<backend, session, project_list, actual_project_name, tool,
                   project_name, reqs, writes, entry, overlap>>

\* ---------------------------------------------------- create_memory_project

\* Lines 216-230: refuse when constrained, else post the creation request.
\* (set_default only adds a line to the returned text and is left out.)
CreateStart(p, n) ==
    /\ Dispatch(p, "create_memory_project", n)
    /\ IF Truthy(env)
       THEN /\ Finish(p, Returned("disabled", n, NoName, << >>))
            /\ UNCHANGED reqs
       ELSE /\ Suspend(p, "cr_post", "POST /projects/projects")
            /\ UNCHANGED <<result, local_current, local_listed>>
    /\ UNCHANGED <<backend, session, project_list, actual_project_name, writes, overlap>>

\* Lines 230-246: the Remote Project Directory answers the POST.  It adds the
\* project unless its permalink is taken (or the list is full); a refusal and a
\* failed call both make call_post raise.
CreatePosted(p) ==
    /\ pc[p] = "cr_post"
    /\ \E fault \in {"none", "call_post"}, path \in Paths :
        LET n     == project_name[p]
            taken == \E i \in DOMAIN projects : projects[i].permalink = generate_permalink(n)
        IN  IF fault = "call_post" \/ taken \/ Len(projects) >= MaxProjects
            THEN /\ Finish(p, Raised("remote_call_failure", << >>))
                 /\ UNCHANGED projects
            ELSE /\ projects' = Append(projects, ProjectItem(n, path))
                 /\ Finish(p, Returned("created", n, NoName, << >>))
    /\ UNCHANGED <<env, session, project_list, actual_project_name, tool,
                   project_name, reqs, writes, entry, overlap>>

\* ----------------------------------------------------------- delete_project

\* Mutant of DeleteResolve: the loop keeps the first record when none matches.
DeleteResolveFirst(list, n) == 1

\* Lines 282-293: the first record whose permalink is that of project_name or
\* whose name equals project_name case-insensitively.
DeleteResolve(list, n) ==
    FirstIndex({i \in DOMAIN list : \/ list[i].permalink = generate_permalink(n)
                                     \/ Lower(list[i].name) = Lower(n)})

\* Lines 270-279: refuse when constrained, else await the project list.
DeleteStart(p, n) ==
    /\ Dispatch(p, "delete_project", n)
    /\ IF Truthy(env)
       THEN /\ Finish(p, Returned("disabled", n, NoName, << >>))
            /\ UNCHANGED reqs
       ELSE /\ Suspend(p, "del_list", "GET /projects/projects")
            /\ UNCHANGED <<result, local_current, local_listed>>
    /\ UNCHANGED <<backend, session, project_list, actual_project_name, writes, overlap>>

\* Lines 279-302: the list arrives; resolve.  An unresolved name raises
\* ValueError (lines 295-299).  For a resolved one, line 302 evaluates
\* `matching_project`, a name bound nowhere in delete_project or the module:
\* NameError.  Lines 304-322 (the DELETE request and the text) are never reached.
DeleteListed(p) ==
    /\ pc[p] = "del_list"
    /\ \E fault \in {"none", "call_get"} :
        IF fault = "call_get"
        THEN /\ Finish(p, Raised("remote_call_failure", << >>))
             /\ UNCHANGED project_list
        ELSE /\ project_list' = [project_list EXCEPT ![p] = projects]
             /\ IF DeleteResolve(projects, project_name[p]) = 0
                THEN Finish(p, Raised("not_found", AvailableProjects(projects)))
                ELSE Finish(p, Raised("name_error", << >>))
    /\ UNCHANGED <<backend, session, tool, project_name,
                   actual_project_name, reqs, writes, entry, overlap>>

\* -------------------------------------------------------------- the session

\* The host runtime hands the result to the caller; the slot is free again.
Return(p) ==
    /\ pc[p] = "done"
    /\ pc' = [pc EXCEPT ![p] = "idle"]
    /\ tool' = [tool EXCEPT ![p] = "none"]
    /\ project_name' = [project_name EXCEPT ![p] = NoName]
    /\ project_list' = [project_list EXCEPT ![p] = << >>]
    /\ local_current' = [local_current EXCEPT ![p] = NoName]
    /\ local_listed' = [local_listed EXCEPT ![p] = TRUE]
    /\ actual_project_name' = [actual_project_name EXCEPT ![p] = NoName]
    /\ result' = [result EXCEPT ![p] = NoResult]
    /\ reqs' = [reqs EXCEPT ![p] = << >>]
    /\ writes' = [writes EXCEPT ![p] = 0]
    /\ entry' = [entry EXCEPT ![p] = NoName]
    /\ overlap' = [overlap EXCEPT ![p] = FALSE]
    /\ UNCHANGED <<backend, session>>

Step(p) ==
    \/ \E n \in Names : SwitchStart(p, n)
    \/ SwitchListed(p)
    \/ SwitchInfo(p)
    \/ ListStart(p)
    \/ ListListed(p)
    \/ GetCurrentStart(p)
    \/ GetCurrentInfo(p)
    \/ \E n \in Names : CreateStart(p, n)
    \/ CreatePosted(p)
    \/ \E n \in Names : DeleteStart(p, n)
    \/ DeleteListed(p)
    \/ Return(p)

\* Tool calls dispatched concurrently: handlers interleave at their awaits.
Next == \E p \in Procs : Step(p)

Spec == Init /\ [][Next]_vars

\* Tool calls invoked one after the other: a call starts and proceeds only
\* while no other call of the session is in flight.
Quiescent(p) == \A q \in Procs \ {p} : pc[q] = "idle"

NextSeq ==
    \E p \in Procs :
        \/ Quiescent(p) /\ \E n \in Names : SwitchStart(p, n)
        \/ Quiescent(p) /\ SwitchListed(p)
        \/ Quiescent(p) /\ SwitchInfo(p)
        \/ Quiescent(p) /\ ListStart(p)
        \/ Quiescent(p) /\ ListListed(p)
        \/ Quiescent(p) /\ GetCurrentStart(p)
        \/ Quiescent(p) /\ GetCurrentInfo(p)
        \/ Quiescent(p) /\ \E n \in Names : CreateStart(p, n)
        \/ Quiescent(p) /\ CreatePosted(p)
        \/ Quiescent(p) /\ \E n \in Names : DeleteStart(p, n)
        \/ Quiescent(p) /\ DeleteListed(p)
        \/ Quiescent(p) /\ Return(p)

SeqSpec == Init /\ [][NextSeq]_vars

\* ================================================================== claims

Ended(p, t) == pc[p] = "done" /\ tool[p] = t

\* The call fetched its project list (the directory always lists a project).
Listed(p) == project_list[p] # << >>

SwitchSucceeded(p) ==
    /\ Ended(p, "switch_project")
    /\ result[p].status = "returned"
    /\ result[p].kind \in {"switched", "switched_no_summary"}

\* The names of the records of `list` that equal n case-insensitively.
NameMatches(list, n) ==
    {list[i].name : i \in {j \in DOMAIN list : Lower(list[j].name) = Lower(n)}}

\* The names of the records of `list` whose permalink is that of n.
PermalinkMatches(list, n) ==
    {list[i].name : i \in {j \in DOMAIN list : list[j].permalink = generate_permalink(n)}}

NamesOf(list) == [i \in DOMAIN list |-> list[i].name]

\* The deployment is constrained: the variable holds a project name.
Pinned == \E v \in env : Len(v) > 0

DeleteRequest == "DELETE /projects/{name}"

\* C1 (as stated; calls invoked one after the other): a switch_project call
\* that reports success leaves Session State at the resolved record's name, and
\* one that returns a failure text leaves it at the value it had when the call
\* started.
C1_SwitchCommitsOrRollsBack ==
    \A p \in Procs :
        /\ SwitchSucceeded(p) =>
              /\ current_project \in NameMatches(project_list[p], project_name[p])
              /\ current_project = result[p].name
        /\ ( /\ Ended(p, "switch_project")
             /\ result[p].status = "returned"
             /\ result[p].kind \in {"not_found", "switch_failed"} ) =>
              current_project = entry[p]

\* C2 (calls invoked one after the other): a switch_project call whose name
\* equals no record's name of the fetched list case-insensitively returns the
\* not-found text enumerating every name of that list, has written Session State
\* zero times, and leaves it at its value before the call; get_current_project
\* reports the value Session State holds.
C2_NotFoundLeavesSession ==
    \A p \in Procs :
        /\ ( /\ Ended(p, "switch_project")
             /\ Listed(p)
             /\ NameMatches(project_list[p], project_name[p]) = {} ) =>
              /\ result[p].status = "returned"
              /\ result[p].kind = "not_found"
              /\ result[p].available = NamesOf(project_list[p])
              /\ writes[p] = 0
              /\ current_project = entry[p]
        /\ ( /\ Ended(p, "get_current_project")
             /\ result[p].status = "returned" ) =>
              result[p].shown = current_project

C2_Witness ==
    \E p \in Procs :
        /\ Ended(p, "switch_project")
        /\ project_name[p] = Beta
        /\ result[p].kind = "not_found"
        /\ Len(result[p].available) = 2
        /\ current_project = MyProject

\* C3 (as stated): no switch_project call ends by raising.
C3_SwitchNeverRaises ==
    \A p \in Procs : Ended(p, "switch_project") => result[p].status = "returned"

\* C4: in a constrained deployment every create_memory_project and
\* delete_project call ends in its first step with the disabled-operation text,
\* has issued no backend request, and the step changes neither Session State nor
\* the backend's project list.
C4_ConstrainedDisables ==
    [][ \A p \in Procs :
          ( /\ Pinned
            /\ pc[p] = "idle"
            /\ pc'[p] # "idle"
            /\ tool'[p] \in {"create_memory_project", "delete_project"} ) =>
              /\ pc'[p] = "done"
              /\ result'[p].status = "returned"
              /\ result'[p].kind = "disabled"
              /\ reqs'[p] = << >>
              /\ current_project' = current_project
              /\ projects' = projects ]_vars

C4_Witness ==
    /\ Pinned
    /\ \E p, q \in Procs :
        /\ Ended(p, "create_memory_project") /\ result[p].kind = "disabled"
        /\ Ended(q, "delete_project") /\ result[q].kind = "disabled"
        /\ project_name[p] = Beta
        /\ current_project = MyProject

\* C5 (unconstrained): a delete_project call whose name matches no record of the
\* fetched list, by name or by permalink, ends by raising the not-found error
\* that enumerates the names of that list, and has sent no delete request.
C5_DeleteUnresolvedRaises ==
    \A p \in Procs :
        ( /\ Ended(p, "delete_project")
          /\ Listed(p)
          /\ NameMatches(project_list[p], project_name[p]) = {}
          /\ PermalinkMatches(project_list[p], project_name[p]) = {} ) =>
            /\ result[p].status = "raised"
            /\ result[p].kind = "not_found"
            /\ result[p].available = NamesOf(project_list[p])
            /\ \A i \in DOMAIN reqs[p] : reqs[p][i] # DeleteRequest

C5_Witness ==
    \E p \in Procs :
        /\ Ended(p, "delete_project")
        /\ project_name[p] = Beta
        /\ result[p].status = "raised"
        /\ result[p].kind = "not_found"
        /\ Len(result[p].available) = 2

\* C6 (as stated; unconstrained): a delete_project call whose name resolves to a
\* record of the fetched list returns a text and has sent exactly one delete
\* request.
C6_DeleteResolvedSendsDelete ==
    \A p \in Procs :
        ( /\ Ended(p, "delete_project")
          /\ Listed(p)
          /\ DeleteResolve(project_list[p], project_name[p]) # 0 ) =>
            /\ result[p].status = "returned"
            /\ Cardinality({i \in DOMAIN reqs[p] : reqs[p][i] = DeleteRequest}) = 1

\* C7 (as stated): for the name and the list of every switch_project and
\* delete_project call, the resolution of switch_project and the resolution of
\* delete_project give the same record.
C7_SameResolution ==
    \A p \in Procs :
        ( /\ pc[p] = "done"
          /\ tool[p] \in {"switch_project", "delete_project"}
          /\ Listed(p) ) =>
            SwitchResolve(project_list[p], project_name[p])
                = DeleteResolve(project_list[p], project_name[p])

\* C8 (as stated, for the failing calls that never reached the set step of line
\* 108): the step in which a switch_project call returns its failure text
\* without having resolved a name leaves Session State as it was immediately
\* before that step.
C8_FailingSwitchLeavesValue ==
    [][ \A p \in Procs :
          ( /\ tool[p] = "switch_project"
            /\ pc[p] = "sw_list"
            /\ pc'[p] = "done"
            /\ result'[p].kind = "switch_failed"
            /\ actual_project_name'[p] = NoName ) =>
              current_project' = current_project ]_vars

\* C8 (amended): Session State's value changes only in a step of a
\* switch_project call that has fetched or is fetching its list, and only to the
\* name of a record of the backend's list that equals the call's argument
\* case-insensitively (the set step) or to the value of the call's local
\* current_project (the handler's restore); the step in which a call returns the
\* not-found text changes nothing.  So list_memory_projects,
\* get_current_project, create_memory_project and delete_project never change it.
C8_OnlySwitchStepsWrite ==
    [][ /\ current_project' # current_project =>
              \E p \in Procs :
                  /\ tool[p] = "switch_project"
                  /\ pc[p] \in {"sw_list", "sw_info"}
                  /\ pc'[p] # pc[p]
                  /\ \/ current_project' \in NameMatches(projects, project_name[p])
                     \/ current_project' = local_current[p]
        /\ \A p \in Procs :
              (pc[p] # "done" /\ pc'[p] = "done" /\ result'[p].kind = "not_found") =>
                  current_project' = current_project ]_vars

\* A failing switch_project call has changed Session State: it restored the
\* value it read at its start over the commit of a call that ran meanwhile.
C8_Witness ==
    \E p \in Procs :
        /\ Ended(p, "switch_project")
        /\ result[p].kind = "switch_failed"
        /\ actual_project_name[p] = NoName
        /\ writes[p] = 1
        /\ current_writer = p
        /\ \E q \in Procs \ {p} : SwitchSucceeded(q) /\ result[q].name # current_project

\* C9: in every reachable state Session State holds the initial project or a
\* value that, when the set step of line 108 wrote it, was the name of a record
\* of the list that call had fetched (a restore writes back such a value).
C9_CurrentWasListed ==
    /\ current_listed
    /\ \A p \in Procs : local_listed[p]
    /\ current_writer = "init" => current_project = InitialProject

\* Session State holds the record's name, not the caller's spelling of it, after
\* a switch that overtook another one.
C9_Witness ==
    \E p \in Procs :
        /\ SwitchSucceeded(p)
        /\ current_writer = p
        /\ project_name[p] = AlphaCap
        /\ current_project = Alpha
        /\ entry[p] = MyProject

\* C10: when every slot holds a switch_project call that has ended in success,
\* Session State is the name reported by the call that wrote it last, and each
\* call reports the name of the record its argument matched in the list it
\* fetched.
C10_LastWriterWins ==
    (\A p \in Procs : SwitchSucceeded(p)) =>
        /\ current_writer \in Procs
        /\ current_project = result[current_writer].name
        /\ \A p \in Procs :
              result[p].name \in NameMatches(project_list[p], project_name[p])

\* Two overlapping successful switches to different projects: the one that set
\* second, while the first was suspended at its statistics fetch, has won.
C10_Witness ==
    /\ \A p \in Procs : SwitchSucceeded(p)
    /\ \E p \in Procs :
        /\ overlap[p]
        /\ current_writer = p
        /\ current_project = result[p].name
        /\ \A q \in Procs \ {p} : result[q].name # result[p].name /\ ~overlap[q]

====
